---- MODULE Spec2Model ----
(***************************************************************************)
(* Volume lifecycle controller of the gocryptfs WebUI (src/app.py): the    *)
(* four handlers init_folder, mount_folder, info_folder, unmount_folder,   *)
(* the mount-table oracle _is_mounted and the helpers they call, run       *)
(* against a host whose filesystem, PATH and mount table change under      *)
(* them.                                                                   *)
(*                                                                         *)
(* Text is modelled as a sequence of one-character strings, so that        *)
(* strip(), lower(), split(), splitlines(), "in" and re.sub are computed   *)
(* as Python computes them.                                                *)
(***************************************************************************)
EXTENDS Integers, Sequences, FiniteSets, TLC

\* ------------------------------------------------------------------ text

\* The NUL character "\x00" (TLA+ has no escape for it).
NUL == "<NUL>"

\* str.strip() removes these (the ASCII whitespace the inputs here can hold).
Whitespace == {" ", "\t", "\n", "\r", "\f"}

RECURSIVE lstrip(_)
lstrip(s) ==
  IF s # <<>> /\ Head(s) \in Whitespace THEN lstrip(Tail(s)) ELSE s

RECURSIVE rstrip(_)
rstrip(s) ==
  IF s # <<>> /\ s[Len(s)] \in Whitespace
  THEN rstrip(SubSeq(s, 1, Len(s) - 1))
  ELSE s

\* str.strip()
strip(s) == rstrip(lstrip(s))

RECURSIVE rstrip_slash(_)
\* str.rstrip("/")
rstrip_slash(s) ==
  IF s # <<>> /\ s[Len(s)] = "/"
  THEN rstrip_slash(SubSeq(s, 1, Len(s) - 1))
  ELSE s

\* sub in s
contains(s, sub) ==
  \E i \in 0..(Len(s) - Len(sub)) : SubSeq(s, i + 1, i + Len(sub)) = sub

UpperLetters ==
  <<"A","B","C","D","E","F","G","H","I","J","K","L","M","N","O","P","Q","R","S","T","U","V","W","X","Y","Z">>
LowerLetters ==
  <<"a","b","c","d","e","f","g","h","i","j","k","l","m","n","o","p","q","r","s","t","u","v","w","x","y","z">>

lower_char(c) ==
  IF \E i \in 1..26 : UpperLetters[i] = c
  THEN LowerLetters[CHOOSE i \in 1..26 : UpperLetters[i] = c]
  ELSE c

\* str.lower()
lower(s) == [i \in 1..Len(s) |-> lower_char(s[i])]

\* Index of the first line break of s, 0 when there is none.
first_newline(s) ==
  IF \E i \in 1..Len(s) : s[i] = "\n"
  THEN CHOOSE i \in 1..Len(s) : s[i] = "\n" /\ \A j \in 1..(i - 1) : s[j] # "\n"
  ELSE 0

RECURSIVE splitlines(_)
\* str.splitlines(): no line for the text after a final line break.
splitlines(s) ==
  IF s = <<>> THEN <<>>
  ELSE LET i == first_newline(s) IN
       IF i = 0 THEN <<s>>
       ELSE <<SubSeq(s, 1, i - 1)>> \o splitlines(SubSeq(s, i + 1, Len(s)))

\* Length of the run of non-whitespace characters s starts with.
word_len(s) ==
  IF \E i \in 1..Len(s) : s[i] \in Whitespace
  THEN (CHOOSE i \in 1..Len(s) :
          s[i] \in Whitespace /\ \A j \in 1..(i - 1) : s[j] \notin Whitespace) - 1
  ELSE Len(s)

RECURSIVE split(_)
\* str.split(): the fields between runs of whitespace.
split(s) ==
  LET t == lstrip(s) IN
  IF t = <<>> THEN <<>>
  ELSE LET n == word_len(t) IN
       <<SubSeq(t, 1, n)>> \o split(SubSeq(t, n + 1, Len(t)))

\* ------------------------------------------------------- program text

\* "gocryptfs"
Gocryptfs ==
  <<"g","o","c","r","y","p","t","f","s">>

\* "fusermount"
Fusermount ==
  <<"f","u","s","e","r","m","o","u","n","t">>

\* "findmnt"
Findmnt ==
  <<"f","i","n","d","m","n","t">>

\* "gocryptfs.conf"
ConfName ==
  <<"g","o","c","r","y","p","t","f","s",".","c","o","n","f">>

\* "-init"
FlagInit ==
  <<"-","i","n","i","t">>

\* "-info"
FlagInfo ==
  <<"-","i","n","f","o">>

\* "-u"
FlagU ==
  <<"-","u">>

\* "-ro"
FlagRo ==
  <<"-","r","o">>

\* "-allow_other"
FlagAllowOther ==
  <<"-","a","l","l","o","w","_","o","t","h","e","r">>

\* "-sharedstorage"
FlagSharedstorage ==
  <<"-","s","h","a","r","e","d","s","t","o","r","a","g","e">>

\* "-reverse"
FlagReverse ==
  <<"-","r","e","v","e","r","s","e">>

\* "-aessiv"
FlagAessiv ==
  <<"-","a","e","s","s","i","v">>

\* "-plaintextnames"
FlagPlaintextnames ==
  <<"-","p","l","a","i","n","t","e","x","t","n","a","m","e","s">>

\* "-xchacha"
FlagXchacha ==
  <<"-","x","c","h","a","c","h","a">>

\* "-idle"
FlagIdle ==
  <<"-","i","d","l","e">>

\* "-ko"
FlagKo ==
  <<"-","k","o">>

\* "-masterkey=stdin"
FlagMasterkeyStdin ==
  <<"-","m","a","s","t","e","r","k","e","y","=","s","t","d","i","n">>

\* "-rno"
FlagRno ==
  <<"-","r","n","o">>

\* "TARGET"
FlagTargetCol ==
  <<"T","A","R","G","E","T">>

\* "--target"
FlagTarget ==
  <<"-","-","t","a","r","g","e","t">>

\* "Encrypted folder path must be an absolute path."
MsgInitNotAbs ==
  <<"E","n","c","r","y","p","t","e","d"," ","f","o","l","d","e","r"," ","p","a","t","h"," ","m","u","s","t"," ","b","e"," ","a","n"," ","a","b","s","o","l","u","t","e"," ","p","a","t","h",".">>

\* "Passwords do not match."
MsgPasswordsDiffer ==
  <<"P","a","s","s","w","o","r","d","s"," ","d","o"," ","n","o","t"," ","m","a","t","c","h",".">>

\* "Encrypted folder already initialized."
MsgAlreadyInitialized ==
  <<"E","n","c","r","y","p","t","e","d"," ","f","o","l","d","e","r"," ","a","l","r","e","a","d","y"," ","i","n","i","t","i","a","l","i","z","e","d",".">>

\* "Encrypted folder exists and is not empty."
MsgNotEmptyVolume ==
  <<"E","n","c","r","y","p","t","e","d"," ","f","o","l","d","e","r"," ","e","x","i","s","t","s"," ","a","n","d"," ","i","s"," ","n","o","t"," ","e","m","p","t","y",".">>

\* "gocryptfs is not installed or not in PATH."
MsgNoGocryptfs ==
  <<"g","o","c","r","y","p","t","f","s"," ","i","s"," ","n","o","t"," ","i","n","s","t","a","l","l","e","d"," ","o","r"," ","n","o","t"," ","i","n"," ","P","A","T","H",".">>

\* "Initialization failed."
MsgInitFailed ==
  <<"I","n","i","t","i","a","l","i","z","a","t","i","o","n"," ","f","a","i","l","e","d",".">>

\* "Paths must be absolute."
MsgPathsNotAbs ==
  <<"P","a","t","h","s"," ","m","u","s","t"," ","b","e"," ","a","b","s","o","l","u","t","e",".">>

\* "Encrypted folder does not exist."
MsgNoVolume ==
  <<"E","n","c","r","y","p","t","e","d"," ","f","o","l","d","e","r"," ","d","o","e","s"," ","n","o","t"," ","e","x","i","s","t",".">>

\* "Mount point does not exist."
MsgNoMountPoint ==
  <<"M","o","u","n","t"," ","p","o","i","n","t"," ","d","o","e","s"," ","n","o","t"," ","e","x","i","s","t",".">>

\* "Mount point is not empty."
MsgMountPointNotEmpty ==
  <<"M","o","u","n","t"," ","p","o","i","n","t"," ","i","s"," ","n","o","t"," ","e","m","p","t","y",".">>

\* "Mount point is already mounted."
MsgAlreadyMounted ==
  <<"M","o","u","n","t"," ","p","o","i","n","t"," ","i","s"," ","a","l","r","e","a","d","y"," ","m","o","u","n","t","e","d",".">>

\* "Encrypted folder is not initialized."
MsgNotInitialized ==
  <<"E","n","c","r","y","p","t","e","d"," ","f","o","l","d","e","r"," ","i","s"," ","n","o","t"," ","i","n","i","t","i","a","l","i","z","e","d",".">>

\* "Password is required for password unlock mode."
MsgPasswordRequired ==
  <<"P","a","s","s","w","o","r","d"," ","i","s"," ","r","e","q","u","i","r","e","d"," ","f","o","r"," ","p","a","s","s","w","o","r","d"," ","u","n","l","o","c","k"," ","m","o","d","e",".">>

\* "Master key is required for master-key unlock mode."
MsgMasterKeyRequired ==
  <<"M","a","s","t","e","r"," ","k","e","y"," ","i","s"," ","r","e","q","u","i","r","e","d"," ","f","o","r"," ","m","a","s","t","e","r","-","k","e","y"," ","u","n","l","o","c","k"," ","m","o","d","e",".">>

\* "Idle timeout format is invalid. Use values like '30m' or '2h45m'."
MsgBadIdleTimeout ==
  <<"I","d","l","e"," ","t","i","m","e","o","u","t"," ","f","o","r","m","a","t"," ","i","s"," ","i","n","v","a","l","i","d","."," ","U","s","e"," ","v","a","l","u","e","s"," ","l","i","k","e"," ","'","3","0","m","'"," ","o","r"," ","'","2","h","4","5","m","'",".">>

\* "Mount failed."
MsgMountFailed ==
  <<"M","o","u","n","t"," ","f","a","i","l","e","d",".">>

\* "Mounted successfully."
MsgMounted ==
  <<"M","o","u","n","t","e","d"," ","s","u","c","c","e","s","s","f","u","l","l","y",".">>

\* "Encrypted folder path must be absolute."
MsgInfoNotAbs ==
  <<"E","n","c","r","y","p","t","e","d"," ","f","o","l","d","e","r"," ","p","a","t","h"," ","m","u","s","t"," ","b","e"," ","a","b","s","o","l","u","t","e",".">>

\* "No gocryptfs.conf found in encrypted folder."
MsgNoConf ==
  <<"N","o"," ","g","o","c","r","y","p","t","f","s",".","c","o","n","f"," ","f","o","u","n","d"," ","i","n"," ","e","n","c","r","y","p","t","e","d"," ","f","o","l","d","e","r",".">>

\* "Failed to read config info."
MsgInfoFailed ==
  <<"F","a","i","l","e","d"," ","t","o"," ","r","e","a","d"," ","c","o","n","f","i","g"," ","i","n","f","o",".">>

\* "No output from gocryptfs -info."
MsgNoInfoOutput ==
  <<"N","o"," ","o","u","t","p","u","t"," ","f","r","o","m"," ","g","o","c","r","y","p","t","f","s"," ","-","i","n","f","o",".">>

\* "Mount point path must be absolute."
MsgUnmountNotAbs ==
  <<"M","o","u","n","t"," ","p","o","i","n","t"," ","p","a","t","h"," ","m","u","s","t"," ","b","e"," ","a","b","s","o","l","u","t","e",".">>

\* "Mount point is not mounted."
MsgNotMounted ==
  <<"M","o","u","n","t"," ","p","o","i","n","t"," ","i","s"," ","n","o","t"," ","m","o","u","n","t","e","d",".">>

\* "fusermount is not installed or not in PATH."
MsgNoFusermount ==
  <<"f","u","s","e","r","m","o","u","n","t"," ","i","s"," ","n","o","t"," ","i","n","s","t","a","l","l","e","d"," ","o","r"," ","n","o","t"," ","i","n"," ","P","A","T","H",".">>

\* "Unmount failed."
MsgUnmountFailed ==
  <<"U","n","m","o","u","n","t"," ","f","a","i","l","e","d",".">>

\* "Unmount failed: mount point is busy (files in use)."
MsgBusy ==
  <<"U","n","m","o","u","n","t"," ","f","a","i","l","e","d",":"," ","m","o","u","n","t"," ","p","o","i","n","t"," ","i","s"," ","b","u","s","y"," ","(","f","i","l","e","s"," ","i","n"," ","u","s","e",")",".">>

\* "Unmount failed: mount point is still mounted."
MsgStillMounted ==
  <<"U","n","m","o","u","n","t"," ","f","a","i","l","e","d",":"," ","m","o","u","n","t"," ","p","o","i","n","t"," ","i","s"," ","s","t","i","l","l"," ","m","o","u","n","t","e","d",".">>

\* "Unmounted successfully."
MsgUnmounted ==
  <<"U","n","m","o","u","n","t","e","d"," ","s","u","c","c","e","s","s","f","u","l","l","y",".">>

\* "busy"
Busy ==
  <<"b","u","s","y">>

\* "MasterKey"
MasterKeyToken ==
  <<"M","a","s","t","e","r","K","e","y">>

\* ------------------------------------------------------------------ host

\* The two directories of the host the requests name: an encrypted volume
\* and a mount point.  Every other path is absent.
EncDir == <<"/","e">>
MntDir == <<"/","m">>

\* The executables the program looks up on PATH.
Tools == {Gocryptfs, Fusermount, Findmnt}

\* What a directory is: absent, an empty directory, a directory holding
\* files but no gocryptfs.conf, a directory holding gocryptfs.conf.
Kinds == {"absent", "empty", "nonempty", "conf"}

\* What open()/read of a mount-table file does: it is read, open() raises
\* OSError, or its bytes are not UTF-8.
FileStates == {"ok", "unreadable", "undecodable"}

\* A host: the executables on PATH, the two directories, whether the kernel
\* has a filesystem mounted on MntDir, and the state of the two kernel
\* mount-table files.
Hosts ==
  [tools : SUBSET Tools, enc : Kinds, mnt : Kinds \ {"conf"},
   mounted : BOOLEAN, mountinfo : FileStates, mounts : FileStates]

VARIABLES
  host,        \* the host's current state
  envSteps,    \* changes the environment made to the host so far
  pc,          \* per caller: where its request stands
  req,         \* per caller: the request being served
  cmd,         \* per caller: the argument vector built for the lifecycle tool
  stdin_data,  \* per caller: the payload for the tool's standard input
  procs,       \* per caller: the processes _run_command ran for the request, with
               \* the exit code and the output it returned for each
  out,         \* per caller: the JSON body returned, or the exception raised
  opened       \* per caller: the mount-table files _is_mounted called open() on
               \* for the request

vars == <<host, envSteps, pc, req, cmd, stdin_data, procs, out, opened>>

\* ----------------------------------------------------------- path helpers

\* _is_abs_path: non-empty after strip(), absolute, no NUL.
_is_abs_path(path) ==
  LET p == strip(path) IN
  /\ p # <<>>
  /\ Head(p) = "/"
  /\ \A i \in 1..Len(p) : p[i] # NUL

\* os.path.realpath on a host without symbolic links, for an absolute path
\* without "." and "..": trailing separators go, the root stays.
realpath(p) ==
  IF rstrip_slash(p) = <<>> THEN <<"/">> ELSE rstrip_slash(p)

\* os.path.join(a, b) for a relative b
path_join(a, b) ==
  IF a # <<>> /\ a[Len(a)] = "/" THEN a \o b ELSE a \o <<"/">> \o b

\* The kind of the directory p names.
dir_kind(h, p) ==
  IF realpath(p) = EncDir THEN h.enc
  ELSE IF realpath(p) = MntDir THEN h.mnt
  ELSE "absent"

\* os.path.exists: a directory, or the gocryptfs.conf of a directory.
os_path_exists(h, p) ==
  \/ dir_kind(h, p) # "absent"
  \/ \E d \in {EncDir, MntDir} :
       p = path_join(d, ConfName) /\ dir_kind(h, d) = "conf"

\* _path_exists
_path_exists(h, p) == os_path_exists(h, p)

\* _is_dir_empty: os.path.isdir(path) and not os.listdir(path)
_is_dir_empty(h, p) == dir_kind(h, p) = "empty"

\* _require_tool: shutil.which finds the tool on PATH.
_require_tool(h, tool) == tool \in h.tools

\* ----------------------------------------------------- mount-table oracle

OctalDigits == {"0", "1", "2", "3", "4", "5", "6", "7"}

digit_value(c) ==
  CASE c = "0" -> 0 [] c = "1" -> 1 [] c = "2" -> 2 [] c = "3" -> 3
    [] c = "4" -> 4 [] c = "5" -> 5 [] c = "6" -> 6 [] c = "7" -> 7

\* chr(n) for the code points the mount tables escape; any other one is
\* shown as "?".
chr(n) ==
  CASE n = 32 -> " " [] n = 9 -> "\t" [] n = 10 -> "\n" [] n = 92 -> "\\"
    [] OTHER -> "?"

RECURSIVE _unescape_mount_path(_)
\* _unescape_mount_path: re.sub(r"\\([0-7]{3})", chr(int(group, 8)), path)
_unescape_mount_path(s) ==
  IF s = <<>> THEN <<>>
  ELSE IF /\ s[1] = "\\"
          /\ Len(s) >= 4
          /\ \A i \in 2..4 : s[i] \in OctalDigits
       THEN <<chr(64 * digit_value(s[2]) + 8 * digit_value(s[3]) + digit_value(s[4]))>>
            \o _unescape_mount_path(SubSeq(s, 5, Len(s)))
       ELSE <<s[1]>> \o _unescape_mount_path(Tail(s))

RECURSIVE kernel_escape(_)
\* How the kernel writes a mount point into its tables: space, tab, line
\* break and backslash as \ooo.
kernel_escape(s) ==
  IF s = <<>> THEN <<>>
  ELSE (CASE Head(s) = " "  -> <<"\\","0","4","0">>
          [] Head(s) = "\t" -> <<"\\","0","1","1">>
          [] Head(s) = "\n" -> <<"\\","0","1","2">>
          [] Head(s) = "\\" -> <<"\\","1","3","4">>
          [] OTHER -> <<Head(s)>>)
       \o kernel_escape(Tail(s))

\* The lines of /proc/self/mountinfo: the mount point is the 5th field.
mountinfo_lines(h) ==
  <<  <<"1"," ","0"," ","8",":","1"," ","/"," ","/"," ","r","w">>  >>
  \o (IF h.mounted
      THEN << <<"2"," ","1"," ","0",":","9"," ","/"," ">> \o kernel_escape(MntDir)
              \o <<" ","r","w">> >>
      ELSE <<>>)

\* The lines of /proc/mounts: the mount point is the 2nd field.
mounts_lines(h) ==
  <<  <<"r"," ","/"," ","e","x","t","4">>  >>
  \o (IF h.mounted
      THEN << <<"g"," ">> \o kernel_escape(MntDir) \o <<" ","f","u","s","e">> >>
      ELSE <<>>)

\* findmnt -rno TARGET --target p: exit code 1 for a path that does not
\* exist, else the mount point of the filesystem p lies on.
findmnt_run(h, p) ==
  IF ~os_path_exists(h, p)
  THEN [code |-> 1, stdout |-> <<>>]
  ELSE [code |-> 0,
        stdout |-> (IF h.mounted /\ realpath(p) = MntDir THEN MntDir ELSE <<"/">>)
                   \o <<"\n">>]

\* The path _is_mounted compares with (line 78).
canonical(path) == rstrip_slash(realpath(strip(path)))

\* Some line of a mount table has mp in field col (lines 88-94, 99-104).
table_lists(lines, col, mp) ==
  \E i \in 1..Len(lines) :
    LET parts == split(lines[i]) IN
    /\ Len(parts) >= col
    /\ rstrip_slash(realpath(_unescape_mount_path(parts[col]))) = mp

\* findmnt lists mp among its targets (lines 81-85).
findmnt_lists(h, mp) ==
  LET r == findmnt_run(h, mp)
      ls == splitlines(r.stdout)
  IN  /\ r.code = 0
      /\ \E i \in 1..Len(ls) :
           strip(ls[i]) # <<>> /\ rstrip_slash(realpath(ls[i])) = mp

\* What a call of a function gives: a value or an exception.
Value(v) == [kind |-> "value", value |-> v]
Raise(e) == [kind |-> "raise", exc |-> e]

\* _is_mounted: findmnt, then /proc/self/mountinfo, then /proc/mounts.
_is_mounted(h, mount_path) ==
  LET mp == canonical(mount_path) IN
  IF _require_tool(h, Findmnt) /\ findmnt_lists(h, mp) THEN Value(TRUE)
  ELSE IF h.mountinfo = "unreadable" THEN Value(FALSE)
  ELSE IF h.mountinfo = "undecodable" THEN Raise("UnicodeDecodeError")
  ELSE IF table_lists(mountinfo_lines(h), 5, mp) THEN Value(TRUE)
  ELSE IF h.mounts = "unreadable" THEN Value(FALSE)
  ELSE IF h.mounts = "undecodable" THEN Raise("UnicodeDecodeError")
  ELSE IF table_lists(mounts_lines(h), 2, mp) THEN Value(TRUE)
  ELSE Value(FALSE)

\* The kernel's mount-table files (lines 87, 98).
ProcMountinfo == "/proc/self/mountinfo"
ProcMounts == "/proc/mounts"

\* Mutant of is_mounted_opens: /proc/self/mountinfo is opened whatever
\* findmnt said.
is_mounted_opens_always(h, mount_path) ==
  LET mp == canonical(mount_path) IN
  IF h.mountinfo # "ok" \/ table_lists(mountinfo_lines(h), 5, mp) THEN <<ProcMountinfo>>
  ELSE <<ProcMountinfo, ProcMounts>>

\* The files one call of _is_mounted calls open() on: none when findmnt
\* listed the path (line 85 returns); else /proc/self/mountinfo (line 87),
\* and /proc/mounts (line 98) when the first was read to its end without a
\* line for the path.
is_mounted_opens(h, mount_path) ==
  LET mp == canonical(mount_path) IN
  IF _require_tool(h, Findmnt) /\ findmnt_lists(h, mp) THEN <<>>
  ELSE IF h.mountinfo # "ok" \/ table_lists(mountinfo_lines(h), 5, mp) THEN <<ProcMountinfo>>
  ELSE <<ProcMountinfo, ProcMounts>>

\* A process run through _run_command and what it returned (lines 125-134).
Proc(argv, input, code, stdout, stderr) ==
  [argv |-> argv, stdin |-> input, code |-> code, stdout |-> stdout, stderr |-> stderr]

\* Mutant of is_mounted_procs: findmnt is run a second time when its first
\* run did not list the path.
is_mounted_procs_retried(h, mount_path) ==
  LET mp == canonical(mount_path)
      p == Proc(<<Findmnt, FlagRno, FlagTargetCol, FlagTarget, mp>>, <<>>,
                findmnt_run(h, mp).code, findmnt_run(h, mp).stdout, <<>>)
  IN  IF ~_require_tool(h, Findmnt) THEN <<>>
      ELSE IF findmnt_lists(h, mp) THEN <<p>>
      ELSE <<p, p>>

\* The processes one call of _is_mounted starts (lines 80-81).
is_mounted_procs(h, mount_path) ==
  LET mp == canonical(mount_path) IN
  IF _require_tool(h, Findmnt)
  THEN << Proc(<<Findmnt, FlagRno, FlagTargetCol, FlagTarget, mp>>, <<>>,
               findmnt_run(h, mp).code, findmnt_run(h, mp).stdout, <<>>) >>
  ELSE <<>>

\* -------------------------------------------------------------- requests

\* The callers that may have a request in flight.
Callers == {"a", "b"}

\* Secrets and option strings the requests are drawn from.
Empty == <<>>
Blank == <<" ">>
PasswordP == <<"p">>
PasswordQ == <<"q">>
KeyK == <<" ","k","\n">>
KeyJ == <<"j">>
Idle30m == <<"3","0","m">>
Idle30 == <<"3","0">>
KoRo == <<"r","o">>

\* Path strings the requests are drawn from: the two directories as they
\* are, with surrounding whitespace, with a trailing separator, relative,
\* empty, holding NUL, and a path that does not exist.
EncPaths == {EncDir, <<" ">> \o EncDir \o <<"\n">>, <<"e">>, Blank, EncDir \o <<NUL>>}
MntPaths == {MntDir, <<" ">> \o MntDir \o <<"/">>, <<"m">>, <<"/","q">>}

InitRequests ==
  [op : {"init"}, enc_path : EncPaths,
   password : {PasswordP, Empty}, password_confirm : {PasswordP, PasswordQ}]

\* A MountRequest with the defaults of the class (lines 33-47).
BaseMount ==
  [op |-> "mount", enc_path |-> EncDir, mount_path |-> MntDir,
   auth_mode |-> "password", password |-> PasswordP, master_key |-> Empty,
   read_only |-> FALSE, allow_other |-> FALSE, sharedstorage |-> FALSE,
   reverse |-> FALSE, aessiv |-> FALSE, plaintextnames |-> FALSE,
   xchacha |-> FALSE, idle_timeout |-> Empty, kernel_options |-> Empty]

AllFlags ==
  [BaseMount EXCEPT !.read_only = TRUE, !.allow_other = TRUE,
     !.sharedstorage = TRUE, !.reverse = TRUE, !.aessiv = TRUE,
     !.plaintextnames = TRUE, !.xchacha = TRUE]

\* Mount requests: the base request varied in its paths, in its secret, in
\* its idle timeout and in its options.
MountRequests ==
  {[BaseMount EXCEPT !.enc_path = e] : e \in EncPaths \cup {<<"/","q">>}}
  \cup {[BaseMount EXCEPT !.mount_path = m] : m \in MntPaths}
  \cup {[BaseMount EXCEPT !.auth_mode = a, !.password = p, !.master_key = k] :
          a \in {"password", "masterkey"}, p \in {Empty, PasswordP, PasswordQ},
          k \in {Empty, Blank, KeyK}}
  \cup {[BaseMount EXCEPT !.idle_timeout = i, !.kernel_options = k] :
          i \in {Blank, Idle30m, Idle30}, k \in {Empty, KoRo}}
  \cup {[AllFlags EXCEPT !.auth_mode = a, !.master_key = KeyJ, !.idle_timeout = Idle30m,
           !.kernel_options = <<" ">> \o KoRo] : a \in {"password", "masterkey"}}

InfoRequests == [op : {"info"}, enc_path : EncPaths]

UnmountRequests == [op : {"unmount"}, mount_path : MntPaths]

\* The requests a caller may send, by handler.
Requests ==
  [init |-> InitRequests, mount |-> MountRequests,
   info |-> InfoRequests, unmount |-> UnmountRequests]

\* Exit codes and output streams an external process may end with.
ExitCodes == {0, 1}
Stdouts ==
  { Empty,
    <<"o","k","\n">>,
    <<"b","u","s","y","\n">>,
    <<"o","k","\n","M","a","s","t","e","r","K","e","y",":"," ","9","\n">>,
    <<"a","\n"," ","M","a","s","t","e","r","K","e","y",":","1"," ","\n",
      "M","a","s","t","e","r","K","e","y",":","2","\n">> }
Stderrs ==
  { Empty,
    <<" ","\n">>,
    <<"e","r","r","\n">>,
    <<"D","e","v","i","c","e"," ","B","u","s","y","\n">> }

\* ---------------------------------------------------------------- helpers

\* a or b  (Python: the first operand unless it is the empty string)
or_else(a, b) == IF a # <<>> THEN a ELSE b

\* str.encode(): UTF-8 of the ASCII text modelled here, the same sequence.
encode(s) == s

\* bytes.decode(errors="replace") of the ASCII output modelled here.
decode(b) == b

Digits == {"0", "1", "2", "3", "4", "5", "6", "7", "8", "9"}
Units == {"s", "m", "h", "d"}

\* Length of the run of digits s starts with.
digits_len(s) ==
  IF \E i \in 1..Len(s) : s[i] \notin Digits
  THEN (CHOOSE i \in 1..Len(s) :
          s[i] \notin Digits /\ \A j \in 1..(i - 1) : s[j] \in Digits) - 1
  ELSE Len(s)

\* Length of the group \d+(?:\.\d+)?[smhd] that s starts with, 0 if none.
group_len(s) ==
  LET n == digits_len(s)
      rest == SubSeq(s, n + 1, Len(s))
      f == IF rest # <<>> /\ Head(rest) = "." THEN digits_len(Tail(rest)) ELSE 0
      m == IF f > 0 THEN n + 1 + f ELSE n
  IN  IF n > 0 /\ m < Len(s) /\ s[m + 1] \in Units THEN m + 1 ELSE 0

RECURSIVE groups_only(_)
\* s is a concatenation of zero or more groups.
groups_only(s) ==
  \/ s = <<>>
  \/ group_len(s) > 0 /\ groups_only(SubSeq(s, group_len(s) + 1, Len(s)))

\* Mutant of _validate_duration: the pattern is matched at the start of the
\* value, not against the whole of it.
_validate_duration_prefix(value) ==
  value = <<"0">> \/ group_len(value) > 0

\* _validate_duration
_validate_duration(value) ==
  value = <<"0">> \/ (value # <<>> /\ groups_only(value))

RECURSIVE last_with_token(_)
\* Mutant of first_with_token: the scan does not stop at the first line
\* holding "MasterKey" and gives the last one.
last_with_token(ls) ==
  IF ls = <<>> THEN <<>>
  ELSE IF last_with_token(Tail(ls)) # <<>> THEN last_with_token(Tail(ls))
  ELSE IF contains(Head(ls), MasterKeyToken) THEN <<strip(Head(ls))>>
  ELSE <<>>

RECURSIVE first_with_token(_)
\* The first line of ls holding "MasterKey", stripped; none as <<>>, one as <<line>>.
first_with_token(ls) ==
  IF ls = <<>> THEN <<>>
  ELSE IF contains(Head(ls), MasterKeyToken) THEN <<strip(Head(ls))>>
  ELSE first_with_token(Tail(ls))

\* _extract_master_key: None is <<>>, a line l is <<l>>.
_extract_master_key(output) == first_with_token(splitlines(output))

\* What the check phase of a handler ends with: a JSON body returned, an
\* exception raised, or a command to run.
Return(body) == [kind |-> "return", body |-> body]
Run(argv, input) == [kind |-> "run", argv |-> argv, stdin |-> input]

Error(msg) == [ok |-> FALSE, error |-> msg]

\* -------------------------------------------------------------- handlers

\* Mutant of init_check: the passwords are compared after the volume path
\* was looked at.
init_check_password_late(h, q) ==
  LET enc == strip(q.enc_path)
      conf_path == path_join(enc, ConfName)
  IN  IF ~_is_abs_path(enc) THEN Return(Error(MsgInitNotAbs))
      ELSE IF _path_exists(h, enc) /\ os_path_exists(h, conf_path)
        THEN Return(Error(MsgAlreadyInitialized))
      ELSE IF _path_exists(h, enc) /\ ~_is_dir_empty(h, enc)
        THEN Return(Error(MsgNotEmptyVolume))
      ELSE IF q.password # q.password_confirm THEN Return(Error(MsgPasswordsDiffer))
      ELSE IF ~_require_tool(h, Gocryptfs) THEN Return(Error(MsgNoGocryptfs))
      ELSE Run(<<Gocryptfs, FlagInit, enc>>,
               encode(q.password \o <<"\n">> \o q.password_confirm \o <<"\n">>))

\* init_folder up to the command it builds (lines 552-568).
init_check(h, q) ==
  LET enc == strip(q.enc_path)
      conf_path == path_join(enc, ConfName)
  IN  IF ~_is_abs_path(enc) THEN Return(Error(MsgInitNotAbs))
      ELSE IF q.password # q.password_confirm THEN Return(Error(MsgPasswordsDiffer))
      ELSE IF _path_exists(h, enc) /\ os_path_exists(h, conf_path)
        THEN Return(Error(MsgAlreadyInitialized))
      ELSE IF _path_exists(h, enc) /\ ~_is_dir_empty(h, enc)
        THEN Return(Error(MsgNotEmptyVolume))
      ELSE IF ~_require_tool(h, Gocryptfs) THEN Return(Error(MsgNoGocryptfs))
      ELSE Run(<<Gocryptfs, FlagInit, enc>>,
               encode(q.password \o <<"\n">> \o q.password_confirm \o <<"\n">>))

\* init_folder after the process ended (lines 570-575).
init_result(code, stdout, stderr) ==
  LET output == strip(stdout) IN
  IF code # 0
  THEN [ok |-> FALSE,
        error |-> or_else(strip(stderr), or_else(output, MsgInitFailed)),
        output |-> output]
  ELSE [ok |-> TRUE, output |-> output, master_key |-> _extract_master_key(output)]

\* Mutant of mount_options: the raw key is handed over as -masterkey=<key>.
mount_options_key_as_argument(q) ==
  LET idle == strip(q.idle_timeout)
      ko == strip(q.kernel_options)
  IN  (IF q.read_only THEN <<FlagRo>> ELSE <<>>)
      \o (IF q.allow_other THEN <<FlagAllowOther>> ELSE <<>>)
      \o (IF q.sharedstorage THEN <<FlagSharedstorage>> ELSE <<>>)
      \o (IF q.reverse THEN <<FlagReverse>> ELSE <<>>)
      \o (IF q.aessiv THEN <<FlagAessiv>> ELSE <<>>)
      \o (IF q.plaintextnames THEN <<FlagPlaintextnames>> ELSE <<>>)
      \o (IF q.xchacha THEN <<FlagXchacha>> ELSE <<>>)
      \o (IF idle # <<>> THEN <<FlagIdle, idle>> ELSE <<>>)
      \o (IF ko # <<>> THEN <<FlagKo, ko>> ELSE <<>>)
      \o (IF q.auth_mode = "masterkey" THEN << <<"-","m","a","s","t","e","r","k","e","y","=">> \o strip(q.master_key) >>
          ELSE <<>>)

\* The options mount_folder puts into the argument vector (lines 613-632).
mount_options(q) ==
  LET idle == strip(q.idle_timeout)
      ko == strip(q.kernel_options)
  IN  (IF q.read_only THEN <<FlagRo>> ELSE <<>>)
      \o (IF q.allow_other THEN <<FlagAllowOther>> ELSE <<>>)
      \o (IF q.sharedstorage THEN <<FlagSharedstorage>> ELSE <<>>)
      \o (IF q.reverse THEN <<FlagReverse>> ELSE <<>>)
      \o (IF q.aessiv THEN <<FlagAessiv>> ELSE <<>>)
      \o (IF q.plaintextnames THEN <<FlagPlaintextnames>> ELSE <<>>)
      \o (IF q.xchacha THEN <<FlagXchacha>> ELSE <<>>)
      \o (IF idle # <<>> THEN <<FlagIdle, idle>> ELSE <<>>)
      \o (IF ko # <<>> THEN <<FlagKo, ko>> ELSE <<>>)
      \o (IF q.auth_mode = "masterkey" THEN <<FlagMasterkeyStdin>> ELSE <<>>)

\* The argument vector mount_folder builds (lines 612-633).
mount_cmd(q) ==
  <<Gocryptfs>> \o mount_options(q) \o <<strip(q.enc_path), strip(q.mount_path)>>

\* The standard-input payload mount_folder builds (line 635).
mount_stdin(q) ==
  IF q.auth_mode = "password"
  THEN encode(q.password \o <<"\n">>)
  ELSE encode(strip(q.master_key) \o <<"\n">>)

\* The error of the first check of mount_folder that fails before it asks
\* _is_mounted, <<>> when none does (lines 580-589).
mount_check_paths(h, q) ==
  LET enc == strip(q.enc_path)
      mnt == strip(q.mount_path)
  IN  IF ~_is_abs_path(enc) \/ ~_is_abs_path(mnt) THEN MsgPathsNotAbs
      ELSE IF ~_path_exists(h, enc) THEN MsgNoVolume
      ELSE IF ~_path_exists(h, mnt) THEN MsgNoMountPoint
      ELSE IF ~_is_dir_empty(h, mnt) THEN MsgMountPointNotEmpty
      ELSE <<>>

\* Mutant of mount_check_mounted: the mount table is not asked.
mount_check_mounted_skipped(h, q) == Value(FALSE)

\* Mutant of mount_check_mounted: a mount path another Mount request is
\* about to run the tool for counts as mounted.
mount_check_mounted_or_in_flight(h, q) ==
  IF \E r \in DOMAIN pc :
       /\ pc[r] = "spawn" /\ req[r].op = "mount"
       /\ canonical(req[r].mount_path) = canonical(q.mount_path)
  THEN Value(TRUE)
  ELSE _is_mounted(h, strip(q.mount_path))

\* What mount_folder's call of _is_mounted gives (line 590).
mount_check_mounted(h, q) == _is_mounted(h, strip(q.mount_path))

\* The error of the first check of mount_folder that fails after it asked
\* _is_mounted, <<>> when none does (lines 592-610).
mount_check_rest(h, q) ==
  LET conf_path == path_join(strip(q.enc_path), ConfName)
      idle == strip(q.idle_timeout)
  IN  IF q.auth_mode = "password" /\ ~os_path_exists(h, conf_path) THEN MsgNotInitialized
      ELSE IF ~_require_tool(h, Gocryptfs) THEN MsgNoGocryptfs
      ELSE IF q.auth_mode = "password" /\ q.password = <<>> THEN MsgPasswordRequired
      ELSE IF q.auth_mode # "password" /\ strip(q.master_key) = <<>>
        THEN MsgMasterKeyRequired
      ELSE IF idle # <<>> /\ ~_validate_duration(idle) THEN MsgBadIdleTimeout
      ELSE <<>>

\* mount_folder reaches its call of _is_mounted.
mount_reaches_oracle(h, q) == mount_check_paths(h, q) = <<>>

\* Mutant of mount_check: the mount table is asked before the paths are
\* looked at.
mount_check_oracle_first(h, q) ==
  IF mount_check_mounted(h, q) = Value(TRUE) THEN Return(Error(MsgAlreadyMounted))
  ELSE IF mount_check_paths(h, q) # <<>> THEN Return(Error(mount_check_paths(h, q)))
  ELSE IF mount_check_mounted(h, q).kind = "raise" THEN mount_check_mounted(h, q)
  ELSE IF mount_check_rest(h, q) # <<>> THEN Return(Error(mount_check_rest(h, q)))
  ELSE Run(mount_cmd(q), mount_stdin(q))

\* mount_folder up to the command it builds (lines 580-635).
mount_check(h, q) ==
  IF mount_check_paths(h, q) # <<>> THEN Return(Error(mount_check_paths(h, q)))
  ELSE IF mount_check_mounted(h, q).kind = "raise" THEN mount_check_mounted(h, q)
  ELSE IF mount_check_mounted(h, q).value THEN Return(Error(MsgAlreadyMounted))
  ELSE IF mount_check_rest(h, q) # <<>> THEN Return(Error(mount_check_rest(h, q)))
  ELSE Run(mount_cmd(q), mount_stdin(q))

\* mount_folder after the process ended (lines 637-642).
mount_result(code, stdout, stderr) ==
  LET output == strip(stdout) IN
  IF code # 0
  THEN [ok |-> FALSE, error |-> or_else(strip(stderr), MsgMountFailed), output |-> <<>>]
  ELSE [ok |-> TRUE, output |-> or_else(output, MsgMounted)]

\* Mutant of info_check: the command gets the path as it was sent.
info_check_untrimmed(h, q) ==
  LET enc_path == strip(q.enc_path)
      conf_path == path_join(enc_path, ConfName)
  IN  IF ~_is_abs_path(enc_path) THEN Return(Error(MsgInfoNotAbs))
      ELSE IF ~_path_exists(h, enc_path) THEN Return(Error(MsgNoVolume))
      ELSE IF ~os_path_exists(h, conf_path) THEN Return(Error(MsgNoConf))
      ELSE IF ~_require_tool(h, Gocryptfs) THEN Return(Error(MsgNoGocryptfs))
      ELSE Run(<<Gocryptfs, FlagInfo, q.enc_path>>, <<>>)

\* info_folder up to the command it builds (lines 647-658).
info_check(h, q) ==
  LET enc_path == strip(q.enc_path)
      conf_path == path_join(enc_path, ConfName)
  IN  IF ~_is_abs_path(enc_path) THEN Return(Error(MsgInfoNotAbs))
      ELSE IF ~_path_exists(h, enc_path) THEN Return(Error(MsgNoVolume))
      ELSE IF ~os_path_exists(h, conf_path) THEN Return(Error(MsgNoConf))
      ELSE IF ~_require_tool(h, Gocryptfs) THEN Return(Error(MsgNoGocryptfs))
      ELSE Run(<<Gocryptfs, FlagInfo, enc_path>>, <<>>)

\* info_folder after the process ended (lines 660-663).
info_result(code, stdout, stderr) ==
  LET output == strip(stdout) IN
  IF code # 0
  THEN [ok |-> FALSE, error |-> or_else(strip(stderr), MsgInfoFailed), output |-> output]
  ELSE [ok |-> TRUE, output |-> or_else(output, MsgNoInfoOutput)]

\* unmount_folder reaches its first call of _is_mounted (lines 669-672 pass).
unmount_reaches_oracle(h, q) ==
  LET mnt == strip(q.mount_path) IN
  _is_abs_path(mnt) /\ _path_exists(h, mnt)

\* unmount_folder up to the command it builds (lines 668-679).
unmount_check(h, q) ==
  LET mnt == strip(q.mount_path) IN
  IF ~_is_abs_path(mnt) THEN Return(Error(MsgUnmountNotAbs))
  ELSE IF ~_path_exists(h, mnt) THEN Return(Error(MsgNoMountPoint))
  ELSE IF _is_mounted(h, mnt).kind = "raise" THEN _is_mounted(h, mnt)
  ELSE IF ~_is_mounted(h, mnt).value THEN Return(Error(MsgNotMounted))
  ELSE IF ~_require_tool(h, Fusermount) THEN Return(Error(MsgNoFusermount))
  ELSE Run(<<Fusermount, FlagU, mnt>>, <<>>)

\* Mutant of unmount_error: "busy" is looked for in the text as it is.
unmount_error_case_sensitive(stdout, stderr) ==
  LET err == or_else(strip(stderr), or_else(strip(stdout), MsgUnmountFailed)) IN
  IF contains(err, Busy) THEN MsgBusy ELSE err

\* unmount_folder's error for a non-zero exit code (lines 683-686).
unmount_error(stdout, stderr) ==
  LET err == or_else(strip(stderr), or_else(strip(stdout), MsgUnmountFailed)) IN
  IF contains(lower(err), Busy) THEN MsgBusy ELSE err

\* Mutant of unmount_verified: the zero exit code is trusted alone.
unmount_verified_trusting(still_mounted, stdout) ==
  [ok |-> TRUE, output |-> or_else(strip(stdout), MsgUnmounted)]

\* unmount_folder after a zero exit code and the second _is_mounted (lines 688-691).
unmount_verified(still_mounted, stdout) ==
  IF still_mounted
  THEN [ok |-> FALSE, error |-> MsgStillMounted, output |-> <<>>]
  ELSE [ok |-> TRUE, output |-> or_else(strip(stdout), MsgUnmounted)]

\* ---------------------------------------------------------------- actions

\* Changes the environment makes to the host during one run.
MaxEnvSteps == 2

NoRequest == [op |-> "none"]
NoOutcome == [pending |-> TRUE]

\* The hosts a run starts from: every tool on PATH, both mount tables
\* readable, the directories and the mount in any state.
InitHosts ==
  {h \in Hosts : /\ h.tools = Tools /\ h.mountinfo = "ok" /\ h.mounts = "ok"
                 /\ (h.mounted => h.mnt # "absent")}

Init ==
  /\ host \in InitHosts
  /\ envSteps = 0
  /\ pc = [r \in Callers |-> "idle"]
  /\ req = [r \in Callers |-> NoRequest]
  /\ cmd = [r \in Callers |-> <<>>]
  /\ stdin_data = [r \in Callers |-> <<>>]
  /\ procs = [r \in Callers |-> <<>>]
  /\ out = [r \in Callers |-> NoOutcome]
  /\ opened = [r \in Callers |-> <<>>]

\* A handler is entered with request q and runs to the end of its check
\* phase, which gave res after starting the processes started.
Enter(r, q, res, started) ==
  /\ pc[r] = "idle"
  /\ req' = [req EXCEPT ![r] = q]
  /\ procs' = [procs EXCEPT ![r] = started]
  /\ pc' = [pc EXCEPT ![r] =
       CASE res.kind = "return" -> "done"
         [] res.kind = "raise" -> "raised"
         [] res.kind = "run" -> "spawn"]
  /\ out' = [out EXCEPT ![r] =
       CASE res.kind = "return" -> res.body
         [] res.kind = "raise" -> [raised |-> res.exc]
         [] res.kind = "run" -> NoOutcome]
  /\ cmd' = [cmd EXCEPT ![r] = IF res.kind = "run" THEN res.argv ELSE <<>>]
  /\ stdin_data' = [stdin_data EXCEPT ![r] = IF res.kind = "run" THEN res.stdin ELSE <<>>]
  /\ UNCHANGED <<host, envSteps>>

\* POST /api/init: init_folder through its checks.
init_folder(r, Q) ==
  /\ \E q \in Q.init : Enter(r, q, init_check(host, q), <<>>)
  /\ UNCHANGED opened

\* POST /api/mount: mount_folder through its checks.
mount_folder(r, Q) ==
  \E q \in Q.mount :
    /\ Enter(r, q, mount_check(host, q),
             IF mount_reaches_oracle(host, q)
             THEN is_mounted_procs(host, strip(q.mount_path)) ELSE <<>>)
    /\ opened' = [opened EXCEPT ![r] =
         IF mount_reaches_oracle(host, q)
         THEN is_mounted_opens(host, strip(q.mount_path)) ELSE <<>>]

\* POST /api/info: info_folder through its checks.
info_folder(r, Q) ==
  /\ \E q \in Q.info : Enter(r, q, info_check(host, q), <<>>)
  /\ UNCHANGED opened

\* POST /api/unmount: unmount_folder through its checks.
unmount_folder(r, Q) ==
  \E q \in Q.unmount :
    /\ Enter(r, q, unmount_check(host, q),
             IF unmount_reaches_oracle(host, q)
             THEN is_mounted_procs(host, strip(q.mount_path)) ELSE <<>>)
    /\ opened' = [opened EXCEPT ![r] =
         IF unmount_reaches_oracle(host, q)
         THEN is_mounted_opens(host, strip(q.mount_path)) ELSE <<>>]

\* subprocess.Popen raises when the executable is not on PATH any more
\* (_run_command, line 126).
popen_raises(h, argv) == argv[1] \notin h.tools

\* The handler of caller r ends with an exception.
Raised(r, exc) ==
  /\ pc' = [pc EXCEPT ![r] = "raised"]
  /\ out' = [out EXCEPT ![r] = [raised |-> exc]]

\* The handler of caller r returns body.
Returned(r, body) ==
  /\ pc' = [pc EXCEPT ![r] = "done"]
  /\ out' = [out EXCEPT ![r] = body]

\* _run_command ran the lifecycle process of caller r and returned.
Ran(r, code, so, se) ==
  procs' = [procs EXCEPT ![r] =
              Append(@, Proc(cmd[r], stdin_data[r], code, decode(so), decode(se)))]

\* What _run_command returned for the lifecycle process of caller r (a
\* handler runs one; _is_mounted runs findmnt).
tool_run(r) ==
  procs[r][CHOOSE i \in 1..Len(procs[r]) : procs[r][i].argv[1] \in {Gocryptfs, Fusermount}]

\* init_folder runs gocryptfs -init (line 569) and interprets its end.  A
\* zero exit code means the tool wrote gocryptfs.conf into the volume.
init_folder_run(r) ==
  /\ pc[r] = "spawn" /\ req[r].op = "init"
  /\ UNCHANGED <<envSteps, req, cmd, stdin_data, opened>>
  /\ IF popen_raises(host, cmd[r])
     THEN Raised(r, "FileNotFoundError") /\ UNCHANGED <<host, procs>>
     ELSE \E code \in ExitCodes, so \in Stdouts, se \in Stderrs :
            /\ Ran(r, code, so, se)
            /\ Returned(r, init_result(code, decode(so), decode(se)))
            /\ host' = IF code = 0 /\ realpath(cmd[r][3]) = EncDir
                       THEN [host EXCEPT !.enc = "conf"] ELSE host

\* mount_folder runs gocryptfs (line 636) and interprets its end.  A zero
\* exit code means the volume is mounted on the mount point.
mount_folder_run(r) ==
  /\ pc[r] = "spawn" /\ req[r].op = "mount"
  /\ UNCHANGED <<envSteps, req, cmd, stdin_data, opened>>
  /\ IF popen_raises(host, cmd[r])
     THEN Raised(r, "FileNotFoundError") /\ UNCHANGED <<host, procs>>
     ELSE \E code \in ExitCodes, so \in Stdouts, se \in Stderrs :
            /\ Ran(r, code, so, se)
            /\ Returned(r, mount_result(code, decode(so), decode(se)))
            /\ host' = IF code = 0 THEN [host EXCEPT !.mounted = TRUE] ELSE host

\* info_folder runs gocryptfs -info (line 659) and interprets its end.
info_folder_run(r) ==
  /\ pc[r] = "spawn" /\ req[r].op = "info"
  /\ UNCHANGED <<host, envSteps, req, cmd, stdin_data, opened>>
  /\ IF popen_raises(host, cmd[r])
     THEN Raised(r, "FileNotFoundError") /\ UNCHANGED procs
     ELSE \E code \in ExitCodes, so \in Stdouts, se \in Stderrs :
            /\ Ran(r, code, so, se)
            /\ Returned(r, info_result(code, decode(so), decode(se)))

\* unmount_folder runs fusermount -u (line 680).  A non-zero exit code is
\* reported at once; after a zero exit code, which may or may not have
\* taken the mount away, the handler goes on to its re-check.
unmount_folder_run(r) ==
  /\ pc[r] = "spawn" /\ req[r].op = "unmount"
  /\ UNCHANGED <<envSteps, req, cmd, stdin_data, opened>>
  /\ IF popen_raises(host, cmd[r])
     THEN Raised(r, "FileNotFoundError") /\ UNCHANGED <<host, procs>>
     ELSE \E code \in ExitCodes, so \in Stdouts, se \in Stderrs :
            /\ Ran(r, code, so, se)
            /\ IF code # 0
               THEN /\ Returned(r, [ok |-> FALSE,
                                    error |-> unmount_error(decode(so), decode(se)),
                                    output |-> <<>>])
                    /\ UNCHANGED host
               ELSE /\ pc' = [pc EXCEPT ![r] = "verify"]
                    /\ \E m \in {FALSE, host.mounted} :
                         host' = [host EXCEPT !.mounted = m]
                    /\ UNCHANGED out

\* unmount_folder asks _is_mounted again (lines 688-691).
unmount_folder_verify(r) ==
  /\ pc[r] = "verify"
  /\ UNCHANGED <<host, envSteps, req, cmd, stdin_data>>
  /\ procs' = [procs EXCEPT ![r] = @ \o is_mounted_procs(host, cmd[r][3])]
  /\ opened' = [opened EXCEPT ![r] = @ \o is_mounted_opens(host, cmd[r][3])]
  /\ LET m == _is_mounted(host, cmd[r][3]) IN
     IF m.kind = "raise"
     THEN Raised(r, m.exc)
     ELSE Returned(r, unmount_verified(m.value, tool_run(r).stdout))

\* The server sends what the handler of caller r ended with (the JSON body,
\* or the error response for an exception) and the request is over.
respond(r) ==
  /\ pc[r] \in {"done", "raised"}
  /\ pc' = [pc EXCEPT ![r] = "idle"]
  /\ req' = [req EXCEPT ![r] = NoRequest]
  /\ cmd' = [cmd EXCEPT ![r] = <<>>]
  /\ stdin_data' = [stdin_data EXCEPT ![r] = <<>>]
  /\ procs' = [procs EXCEPT ![r] = <<>>]
  /\ out' = [out EXCEPT ![r] = NoOutcome]
  /\ opened' = [opened EXCEPT ![r] = <<>>]
  /\ UNCHANGED <<host, envSteps>>

\* The environment changes the host and nothing else.
EnvStep(h) ==
  /\ envSteps < MaxEnvSteps
  /\ envSteps' = envSteps + 1
  /\ host' = h
  /\ UNCHANGED <<pc, req, cmd, stdin_data, procs, out, opened>>

\* An executable is installed on PATH or removed from it.
EnvPath ==
  \E t \in Tools :
    EnvStep([host EXCEPT !.tools = IF t \in @ THEN @ \ {t} ELSE @ \cup {t}])

\* Another process mounts a filesystem on the mount point or unmounts it.
EnvMountTable ==
  EnvStep([host EXCEPT !.mounted = ~@])

\* A kernel mount-table file becomes unreadable, undecodable or readable.
EnvProcFile ==
  \E s \in FileStates :
    \/ s # host.mountinfo /\ EnvStep([host EXCEPT !.mountinfo = s])
    \/ s # host.mounts /\ EnvStep([host EXCEPT !.mounts = s])

\* One step of the server for caller r, whose requests are drawn from Q.
Handler(r, Q) ==
  \/ init_folder(r, Q)
  \/ init_folder_run(r)
  \/ mount_folder(r, Q)
  \/ mount_folder_run(r)
  \/ info_folder(r, Q)
  \/ info_folder_run(r)
  \/ unmount_folder(r, Q)
  \/ unmount_folder_run(r)
  \/ unmount_folder_verify(r)
  \/ respond(r)

Env == EnvPath \/ EnvMountTable \/ EnvProcFile

\* One caller at a time, any request, on a host that changes.
Next == Handler("a", Requests) \/ Env

Spec == Init /\ [][Next]_vars

\* Two callers at a time on a host nothing else changes: Init and Mount
\* requests that differ in their secrets and options.
PairRequests ==
  [init |-> [op : {"init"}, enc_path : {EncDir},
             password : {PasswordP, PasswordQ}, password_confirm : {PasswordP, PasswordQ}],
   mount |-> {[BaseMount EXCEPT !.auth_mode = a, !.password = s, !.master_key = s] :
                a \in {"password", "masterkey"}, s \in {PasswordP, KeyK}}
             \cup {[AllFlags EXCEPT !.auth_mode = "masterkey", !.master_key = k,
                      !.idle_timeout = Idle30m, !.kernel_options = KoRo] :
                      k \in {KeyK, KeyJ}}]

PairInit ==
  /\ Init
  /\ host.enc \in {"empty", "conf"} /\ host.mnt = "empty" /\ ~host.mounted

PairHandler(r) ==
  \/ init_folder(r, PairRequests)
  \/ init_folder_run(r)
  \/ mount_folder(r, PairRequests)
  \/ mount_folder_run(r)
  \/ respond(r)

PairNext == \E r \in Callers : PairHandler(r)

SpecPair == PairInit /\ [][PairNext]_vars

\* The characters idle-timeout strings are made of, and their greatest
\* length.
IdleAlphabet == {"0", "3", ".", "m", " ", "-"}
MaxIdleLen == 3

RECURSIVE Strings(_, _)
\* The strings over alphabet A of length n at most.
Strings(A, n) ==
  IF n = 0 THEN {<<>>}
  ELSE {<<>>} \cup {Append(s, c) : s \in Strings(A, n - 1), c \in A}

\* Idle-timeout strings: every short string over the alphabet, and longer
\* ones with several groups, a decimal number, other units and digits.
IdleStrings ==
  Strings(IdleAlphabet, MaxIdleLen)
  \cup { <<"2","h","4","5","m">>, <<"1",".","5","h">>, <<"5","0","0","s">>,
         <<"-","5","m">>, <<"m","3","0">>, <<"3","0">>, <<"1","d","1","2","h">>,
         <<" ","3","0","m","\n">>, <<"3","0","m","3","0">>, <<"1",".","5",".","5","h">>,
         <<"3","0","M">>, <<"3","0","m","s">> }

\* One caller at a time on an initialized volume and an empty mount point
\* that nothing else changes: Mount requests that differ in their idle
\* timeout alone.
IdleRequests ==
  [mount |-> {[BaseMount EXCEPT !.idle_timeout = i] : i \in IdleStrings}]

IdleInit ==
  /\ Init
  /\ host.enc = "conf" /\ host.mnt = "empty" /\ ~host.mounted

IdleNext ==
  \/ mount_folder("a", IdleRequests)
  \/ mount_folder_run("a")
  \/ respond("a")

SpecIdle == IdleInit /\ [][IdleNext]_vars

\* ----------------------------------------------------------------- claims

\* The lifecycle tools: the encryption tool and the unmount helper.
LifecycleTools == {Gocryptfs, Fusermount}

\* The lifecycle-tool processes run so far for the request of caller r.
lifecycle_procs(r) ==
  {i \in 1..Len(procs[r]) : procs[r][i].argv[1] \in LifecycleTools}

\* The handler of caller r enters with a request of kind op in this step.
Enters(r, op) == pc[r] = "idle" /\ pc'[r] # "idle" /\ req'[r].op = op

\* The handler of caller r returns a JSON body in this step.
Returns(r) == pc[r] # "done" /\ pc'[r] = "done"

\* C1: an Unmount returns ok=true only after the helper exited with code
\* zero and the _is_mounted call made after that exit said "not mounted";
\* when the helper exited zero and that call says "mounted", the outcome is
\* ok=false with the "still mounted" message.  (A request stands at
\* "verify" exactly when its helper has exited with code zero.)
C1_UnmountVerified ==
  [][\A r \in Callers :
       /\ (req[r].op = "unmount" /\ Returns(r) /\ out'[r].ok)
            => /\ pc[r] = "verify"
               /\ tool_run(r).argv[1] = Fusermount
               /\ tool_run(r).code = 0
               /\ _is_mounted(host, cmd[r][3]) = Value(FALSE)
       /\ (pc[r] = "verify" /\ pc'[r] # "verify"
             /\ _is_mounted(host, cmd[r][3]) = Value(TRUE))
            => /\ Returns(r)
               /\ out'[r] = [ok |-> FALSE, error |-> MsgStillMounted, output |-> <<>>]
    ]_vars

\* C1 witness: an Unmount whose helper exited zero ended "still mounted".
C1_Witness ==
  \E r \in Callers :
    /\ pc[r] = "done" /\ req[r].op = "unmount"
    /\ \E i \in lifecycle_procs(r) : procs[r][i].code = 0
    /\ out[r] = [ok |-> FALSE, error |-> MsgStillMounted, output |-> <<>>]

\* The encryption tool was run for the request of caller r.
gocryptfs_ran(r) ==
  \E i \in 1..Len(procs[r]) : procs[r][i].argv[1] = Gocryptfs

\* C2 as stated: every Mount request whose mount path _is_mounted reports
\* as mounted ends ok=false with the "already mounted" message and without
\* the encryption tool having been run.
C2_MountedAlwaysRefused ==
  [][\A r \in Callers :
       (Enters(r, "mount")
        /\ _is_mounted(host, strip(req'[r].mount_path)) = Value(TRUE))
         => /\ pc'[r] = "done"
            /\ out'[r] = Error(MsgAlreadyMounted)
            /\ ~gocryptfs_ran(r)'
    ]_vars

\* C2 amended: every Mount request that passes the checks made before the
\* mount table is asked (both paths absolute and existing, the mount path an
\* empty directory) and whose mount path _is_mounted reports as mounted ends
\* ok=false with the "already mounted" message and without the encryption
\* tool having been run.
C2_MountedRefusedAfterPathChecks ==
  [][\A r \in Callers :
       (Enters(r, "mount")
        /\ _is_abs_path(strip(req'[r].enc_path))
        /\ _is_abs_path(strip(req'[r].mount_path))
        /\ _path_exists(host, strip(req'[r].enc_path))
        /\ _path_exists(host, strip(req'[r].mount_path))
        /\ _is_dir_empty(host, strip(req'[r].mount_path))
        /\ _is_mounted(host, strip(req'[r].mount_path)) = Value(TRUE))
         => /\ pc'[r] = "done"
            /\ out'[r] = Error(MsgAlreadyMounted)
            /\ ~gocryptfs_ran(r)'
    ]_vars

\* C2 witness: a Mount request on a mounted, empty mount point was refused
\* as "already mounted".
C2_Witness ==
  \E r \in Callers :
    /\ pc[r] = "done" /\ req[r].op = "mount"
    /\ out[r] = Error(MsgAlreadyMounted)
    /\ host.mounted /\ host.mnt = "empty"
    /\ ~gocryptfs_ran(r)

\* A precondition check: whether it fails, and the diagnostic it fails with.
Check(fails, msg) == [fails |-> fails, msg |-> msg]

RECURSIVE first_failure(_)
\* The diagnostic of the first check of a list that fails, <<>> if none does.
first_failure(checks) ==
  IF checks = <<>> THEN <<>>
  ELSE IF Head(checks).fails THEN Head(checks).msg
  ELSE first_failure(Tail(checks))

\* The handler of caller r, entered in this step, reports the first failing
\* check of the list, or goes on to run its tool when none fails.
ReportsFirstFailure(r, checks) ==
  IF first_failure(checks) # <<>>
  THEN pc'[r] = "done" /\ out'[r] = Error(first_failure(checks)) /\ procs'[r] = <<>>
  ELSE pc'[r] = "spawn"

\* The five checks of Init on request q.
InitPathCheck(q) == Check(~_is_abs_path(strip(q.enc_path)), MsgInitNotAbs)
InitMarkerCheck(q) ==
  Check(/\ _path_exists(host, strip(q.enc_path))
        /\ os_path_exists(host, path_join(strip(q.enc_path), ConfName)),
        MsgAlreadyInitialized)
InitEmptyCheck(q) ==
  Check(/\ _path_exists(host, strip(q.enc_path))
        /\ ~_is_dir_empty(host, strip(q.enc_path)),
        MsgNotEmptyVolume)
InitPasswordCheck(q) == Check(q.password # q.password_confirm, MsgPasswordsDiffer)
InitToolCheck(q) == Check(Gocryptfs \notin host.tools, MsgNoGocryptfs)

\* C4 as stated: Init checks path validity, marker, emptiness, password
\* confirmation, tool availability, in this order, and reports the first
\* check that fails.
C4_InitOrderAsStated ==
  [][\A r \in Callers :
       Enters(r, "init") =>
         ReportsFirstFailure(r,
           << InitPathCheck(req'[r]), InitMarkerCheck(req'[r]), InitEmptyCheck(req'[r]),
              InitPasswordCheck(req'[r]), InitToolCheck(req'[r]) >>)
    ]_vars

\* C4 amended: Init checks path validity, password confirmation, marker,
\* emptiness, tool availability, in this order, and reports the first check
\* that fails; so an Init whose passwords match ends "already initialized"
\* on a volume holding the marker and "not empty" on a non-empty directory
\* without it.
C4_InitOrder ==
  [][\A r \in Callers :
       Enters(r, "init") =>
         ReportsFirstFailure(r,
           << InitPathCheck(req'[r]), InitPasswordCheck(req'[r]), InitMarkerCheck(req'[r]),
              InitEmptyCheck(req'[r]), InitToolCheck(req'[r]) >>)
    ]_vars

\* C4 witness: an Init with matching passwords was refused as "already
\* initialized" on a volume holding the marker.
C4_Witness ==
  \E r \in Callers :
    /\ pc[r] = "done" /\ req[r].op = "init"
    /\ req[r].password = req[r].password_confirm
    /\ host.enc = "conf"
    /\ out[r] = Error(MsgAlreadyInitialized)

\* The nine checks of Mount on request q.
MountChecks(q) ==
  LET enc == strip(q.enc_path)
      mnt == strip(q.mount_path)
      idle == strip(q.idle_timeout)
  IN  << Check(~_is_abs_path(enc) \/ ~_is_abs_path(mnt), MsgPathsNotAbs),
         Check(~_path_exists(host, enc), MsgNoVolume),
         Check(~_path_exists(host, mnt), MsgNoMountPoint),
         Check(~_is_dir_empty(host, mnt), MsgMountPointNotEmpty),
         Check(_is_mounted(host, mnt) = Value(TRUE), MsgAlreadyMounted),
         Check(/\ q.auth_mode # "masterkey"
               /\ ~os_path_exists(host, path_join(enc, ConfName)),
               MsgNotInitialized),
         Check(Gocryptfs \notin host.tools, MsgNoGocryptfs),
         Check(IF q.auth_mode = "masterkey"
               THEN strip(q.master_key) = <<>> ELSE q.password = <<>>,
               IF q.auth_mode = "masterkey"
               THEN MsgMasterKeyRequired ELSE MsgPasswordRequired),
         Check(idle # <<>> /\ ~_validate_duration(idle), MsgBadIdleTimeout) >>

\* C5: Mount checks, in this order, that both paths are valid, the volume
\* path exists, the mount path exists, the mount path is an empty directory,
\* the mount table does not list the mount path, the volume holds the marker
\* (not checked in raw-key mode), the tool is available, the secret is not
\* empty, the idle timeout (when not blank) is a duration; it reports the
\* first check that fails.  A request whose mount-table query raises reports
\* nothing and is not covered.
C5_MountOrder ==
  [][\A r \in Callers :
       (Enters(r, "mount")
        /\ ~(first_failure(SubSeq(MountChecks(req'[r]), 1, 4)) = <<>>
             /\ _is_mounted(host, strip(req'[r].mount_path)).kind = "raise"))
         => IF first_failure(MountChecks(req'[r])) # <<>>
            THEN /\ pc'[r] = "done"
                 /\ out'[r] = Error(first_failure(MountChecks(req'[r])))
                 /\ ~gocryptfs_ran(r)'
            ELSE pc'[r] = "spawn"
    ]_vars

\* C5 witness: a Mount on a mount point both non-empty and mounted was
\* refused with the empty-directory diagnostic.
C5_Witness ==
  \E r \in Callers :
    /\ pc[r] = "done" /\ req[r].op = "mount"
    /\ host.mounted /\ host.mnt = "nonempty"
    /\ _is_mounted(host, strip(req[r].mount_path)) = Value(TRUE)
    /\ out[r] = Error(MsgMountPointNotEmpty)

\* The checks of Info and of Unmount on request q.
InfoChecks(q) ==
  LET enc == strip(q.enc_path) IN
  << Check(~_is_abs_path(enc), MsgInfoNotAbs),
     Check(~_path_exists(host, enc), MsgNoVolume),
     Check(~os_path_exists(host, path_join(enc, ConfName)), MsgNoConf),
     Check(Gocryptfs \notin host.tools, MsgNoGocryptfs) >>

UnmountChecks(q) ==
  LET mnt == strip(q.mount_path) IN
  << Check(~_is_abs_path(mnt), MsgUnmountNotAbs),
     Check(~_path_exists(host, mnt), MsgNoMountPoint),
     Check(_is_mounted(host, mnt) # Value(TRUE), MsgNotMounted),
     Check(Fusermount \notin host.tools, MsgNoFusermount) >>

\* Every precondition check of the operation of request q passes on the host.
AllChecksPass(q) ==
  first_failure(
    CASE q.op = "init" ->
           << InitPathCheck(q), InitPasswordCheck(q), InitMarkerCheck(q),
              InitEmptyCheck(q), InitToolCheck(q) >>
      [] q.op = "mount" -> MountChecks(q)
      [] q.op = "info" -> InfoChecks(q)
      [] q.op = "unmount" -> UnmountChecks(q)) = <<>>

\* The diagnostics of the precondition checks.
PreconditionMsgs ==
  { MsgInitNotAbs, MsgPasswordsDiffer, MsgAlreadyInitialized, MsgNotEmptyVolume,
    MsgNoGocryptfs, MsgPathsNotAbs, MsgNoVolume, MsgNoMountPoint,
    MsgMountPointNotEmpty, MsgAlreadyMounted, MsgNotInitialized,
    MsgPasswordRequired, MsgMasterKeyRequired, MsgBadIdleTimeout, MsgInfoNotAbs,
    MsgNoConf, MsgUnmountNotAbs, MsgNotMounted, MsgNoFusermount }

\* The paths of request q after trimming, in the order the command takes them.
TrimmedPaths(q) ==
  CASE q.op = "mount" -> <<strip(q.enc_path), strip(q.mount_path)>>
    [] q.op = "unmount" -> <<strip(q.mount_path)>>
    [] OTHER -> <<strip(q.enc_path)>>

\* The paths at the end of argument vector argv built for request q.
ArgvPaths(q, argv) ==
  IF q.op = "mount" THEN SubSeq(argv, Len(argv) - 1, Len(argv)) ELSE <<argv[Len(argv)]>>

\* C6: a lifecycle tool is run for a request only after the request passed
\* every precondition check of its operation, with the trimmed, validated
\* paths of the request as the paths of its argument vector; an outcome that
\* carries a precondition diagnostic was produced with no lifecycle tool run.
C6_NoSpawnBeforeChecks ==
  [][\A r \in Callers :
       /\ (pc[r] = "idle" /\ pc'[r] = "spawn") => AllChecksPass(req'[r])
       /\ (lifecycle_procs(r)' # {})
            => /\ Cardinality(lifecycle_procs(r)') = 1
               /\ ArgvPaths(req'[r], tool_run(r)'.argv) = TrimmedPaths(req'[r])
               /\ \A i \in 1..Len(TrimmedPaths(req'[r])) :
                    _is_abs_path(TrimmedPaths(req'[r])[i])
       /\ (lifecycle_procs(r) = {} /\ lifecycle_procs(r)' # {}) => pc[r] = "spawn"
       /\ (pc'[r] = "done" /\ ~out'[r].ok /\ out'[r].error \in PreconditionMsgs)
            => lifecycle_procs(r)' = {}
    ]_vars

\* C6 witness: a lifecycle tool was run with a path that was sent with
\* surrounding whitespace.
C6_Witness ==
  \E r \in Callers :
    /\ lifecycle_procs(r) # {}
    /\ req[r].op = "info"
    /\ req[r].enc_path # strip(req[r].enc_path)
    /\ tool_run(r).argv[3] = EncDir

\* Some source of _is_mounted that is there lists path mp on host h.
SomeSourceLists(h, mp) ==
  \/ Findmnt \in h.tools /\ findmnt_lists(h, mp)
  \/ h.mountinfo = "ok" /\ table_lists(mountinfo_lines(h), 5, mp)
  \/ h.mounts = "ok" /\ table_lists(mounts_lines(h), 2, mp)

\* No source of _is_mounted is there on host h.
NoSource(h) ==
  Findmnt \notin h.tools /\ h.mountinfo = "unreadable" /\ h.mounts = "unreadable"

\* C7: whenever Unmount asks _is_mounted on a host whose mount-table files
\* are readable or missing (none holds undecodable bytes), the call does not
\* raise, answers true if some source that is there lists the path, whatever
\* sources before it are missing, and answers false if no source is there.
C7_MissingSourceSkipped ==
  [][\A r \in Callers :
       (Enters(r, "unmount") /\ unmount_reaches_oracle(host, req'[r])
        /\ host.mountinfo # "undecodable" /\ host.mounts # "undecodable")
         => LET mp == canonical(req'[r].mount_path) IN
            /\ pc'[r] # "raised"
            /\ SomeSourceLists(host, mp) => out'[r] # Error(MsgNotMounted)
            /\ NoSource(host) => out'[r] = Error(MsgNotMounted)
    ]_vars

\* The generic failure message of an operation.
GenericMsg(op) ==
  CASE op = "init" -> MsgInitFailed [] op = "mount" -> MsgMountFailed
    [] op = "info" -> MsgInfoFailed [] op = "unmount" -> MsgUnmountFailed

\* The error text chosen from a failed process t: trimmed standard error,
\* else trimmed standard output, else the generic message.
PreferredError(op, t) ==
  or_else(strip(t.stderr), or_else(strip(t.stdout), GenericMsg(op)))

\* C8: for each of the four operations, after a non-zero exit code the error
\* is the trimmed standard error if not empty, else the trimmed standard
\* output if not empty, else the generic message (for Unmount, before the
\* "busy" message replaces it).
C8_ErrorPreference ==
  \A r \in Callers :
    (pc[r] = "done" /\ lifecycle_procs(r) # {} /\ tool_run(r).code # 0)
      => \/ out[r].error = PreferredError(req[r].op, tool_run(r))
         \/ req[r].op = "unmount" /\ out[r].error = MsgBusy
              /\ contains(lower(PreferredError("unmount", tool_run(r))), Busy)

\* C9 as stated: after a failed Unmount the error is the "busy" diagnostic
\* if standard error together with standard output holds "busy" in any
\* letter case, and the tool's text or the generic message if not.
C9_BusyInEitherStream ==
  \A r \in Callers :
    (pc[r] = "done" /\ req[r].op = "unmount"
     /\ lifecycle_procs(r) # {} /\ tool_run(r).code # 0)
      => out[r].error =
           IF contains(lower(tool_run(r).stderr \o tool_run(r).stdout), Busy)
           THEN MsgBusy
           ELSE PreferredError("unmount", tool_run(r))

\* C9 amended: after a failed Unmount the error is the "busy" diagnostic if
\* the error text chosen (trimmed standard error, else trimmed standard
\* output, else the generic message) holds "busy" in any letter case, and
\* that chosen text if not.
C9_BusyInChosenText ==
  \A r \in Callers :
    (pc[r] = "done" /\ req[r].op = "unmount"
     /\ lifecycle_procs(r) # {} /\ tool_run(r).code # 0)
      => out[r].error =
           IF contains(lower(PreferredError("unmount", tool_run(r))), Busy)
           THEN MsgBusy
           ELSE PreferredError("unmount", tool_run(r))

\* C9 witness: a failed Unmount whose standard error says "Busy" got the
\* "busy" diagnostic.
C9_Witness ==
  \E r \in Callers :
    /\ pc[r] = "done" /\ req[r].op = "unmount"
    /\ lifecycle_procs(r) # {} /\ tool_run(r).code # 0
    /\ contains(tool_run(r).stderr, <<"B","u","s","y">>)
    /\ out[r].error = MsgBusy

\* C10: no request ends in an exception that the handler does not catch.
C10_NoUncaughtException ==
  \A r \in Callers : pc[r] # "raised"

\* The strings mount_folder and init_folder put into an argument vector
\* whatever the request.
FixedArgs ==
  { Gocryptfs, FlagInit, FlagRo, FlagAllowOther, FlagSharedstorage, FlagReverse,
    FlagAessiv, FlagPlaintextnames, FlagXchacha, FlagIdle, FlagKo,
    FlagMasterkeyStdin }

\* The idle-timeout string, the kernel-options string and the paths of
\* request q, trimmed.
OpenArgs(q) ==
  IF q.op = "mount"
  THEN {strip(q.idle_timeout), strip(q.kernel_options),
        strip(q.enc_path), strip(q.mount_path)}
  ELSE {strip(q.enc_path)}

\* The secret of request q as it goes to standard input.
SecretPayload(q) ==
  IF q.op = "init" THEN q.password \o <<"\n">> \o q.password_confirm \o <<"\n">>
  ELSE IF q.auth_mode = "password" THEN q.password \o <<"\n">>
  ELSE strip(q.master_key) \o <<"\n">>

\* Request q with its secret fields blanked.
WithoutSecrets(q) ==
  IF q.op = "init" THEN [q EXCEPT !.password = <<>>, !.password_confirm = <<>>]
  ELSE [q EXCEPT !.password = <<>>, !.master_key = <<>>]

\* Caller r stands with a command built for an Init or a Mount.
Built(r) == pc[r] = "spawn" /\ req[r].op \in {"init", "mount"}

\* C3: the secret of an Init or a Mount goes to standard input and has no
\* part in the argument vector: every element of the vector is a fixed flag,
\* the idle-timeout string, the kernel-options string or a path, and two
\* requests that differ only in their secret fields get the same vector.
C3_SecretOnlyOnStdin ==
  /\ \A r \in Callers :
       Built(r) =>
         /\ \A i \in 1..Len(cmd[r]) : cmd[r][i] \in FixedArgs \cup OpenArgs(req[r])
         /\ stdin_data[r] = SecretPayload(req[r])
  /\ \A r1, r2 \in Callers :
       (Built(r1) /\ Built(r2) /\ WithoutSecrets(req[r1]) = WithoutSecrets(req[r2]))
         => cmd[r1] = cmd[r2]

\* C3 witness: two raw-key Mounts that differ in their key alone both stand
\* with their command built.
C3_Witness ==
  \E r1, r2 \in Callers :
    /\ Built(r1) /\ Built(r2)
    /\ req[r1].op = "mount" /\ req[r2].op = "mount"
    /\ req[r1].auth_mode = "masterkey"
    /\ strip(req[r1].master_key) # strip(req[r2].master_key)
    /\ WithoutSecrets(req[r1]) = WithoutSecrets(req[r2])
    /\ cmd[r1] = cmd[r2]

\* A number of the duration grammar: an integer, or a decimal with digits
\* on both sides of its point.
IsNumber(s) ==
  /\ s # <<>>
  /\ \/ \A i \in 1..Len(s) : s[i] \in Digits
     \/ \E k \in 2..(Len(s) - 1) :
          /\ s[k] = "."
          /\ \A i \in (1..Len(s)) \ {k} : s[i] \in Digits

\* A <number><unit> group.
IsGroup(s) ==
  /\ Len(s) >= 2
  /\ s[Len(s)] \in Units
  /\ IsNumber(SubSeq(s, 1, Len(s) - 1))

RECURSIVE IsGroups(_)
\* One or more groups with nothing between them.
IsGroups(s) ==
  \E k \in 1..Len(s) :
    /\ IsGroup(SubSeq(s, 1, k))
    /\ k = Len(s) \/ IsGroups(SubSeq(s, k + 1, Len(s)))

\* The duration grammar: the literal 0, or one or more groups.
DurationGrammar(s) == s = <<"0">> \/ IsGroups(s)

\* Caller r enters Mount in this step with a request that passes every
\* check made before the idle timeout is looked at.
IdleChecked(r) ==
  /\ Enters(r, "mount")
  /\ first_failure(SubSeq(MountChecks(req'[r]), 1, 8)) = <<>>
  /\ _is_mounted(host, strip(req'[r].mount_path)).kind = "value"

\* The Mount of caller r is refused for its idle timeout, with no process
\* of the encryption tool.
IdleRefused(r) ==
  /\ pc'[r] = "done"
  /\ out'[r] = Error(MsgBadIdleTimeout)
  /\ ~gocryptfs_ran(r)'

\* C11 as stated: a Mount whose idle-timeout field is not empty passes the
\* duration check iff the field is in the duration grammar; any other
\* non-empty field, a whitespace-only one among them, is refused with the
\* idle-timeout diagnostic and without a process.
C11_IdleFieldAsStated ==
  [][\A r \in Callers :
       (IdleChecked(r) /\ req'[r].idle_timeout # <<>>)
         => IF DurationGrammar(req'[r].idle_timeout)
            THEN pc'[r] = "spawn"
            ELSE IdleRefused(r)
    ]_vars

\* The argument vector argv has the -idle flag followed by value.
HasIdle(argv, value) ==
  \E i \in 1..(Len(argv) - 1) : argv[i] = FlagIdle /\ argv[i + 1] = value

\* C11 amended: the idle-timeout field is trimmed first.  A field that is
\* empty after trimming counts as not supplied: the Mount goes on without
\* the -idle flag.  Any other field passes iff its trimmed value is in the
\* duration grammar, and the trimmed value follows the -idle flag; if not,
\* the Mount is refused with the idle-timeout diagnostic and without a
\* process.
C11_IdleTrimmed ==
  [][\A r \in Callers :
       IdleChecked(r)
         => LET idle == strip(req'[r].idle_timeout) IN
            IF idle = <<>>
            THEN pc'[r] = "spawn" /\ \A i \in 1..Len(cmd'[r]) : cmd'[r][i] # FlagIdle
            ELSE IF DurationGrammar(idle)
            THEN pc'[r] = "spawn" /\ HasIdle(cmd'[r], idle)
            ELSE IdleRefused(r)
    ]_vars

\* C11 witness: the encryption tool ran with a two-group idle timeout, for
\* a request that passed the duration check.
C11_Witness ==
  \E r \in Callers :
    /\ req[r].op = "mount"
    /\ req[r].idle_timeout = <<"2","h","4","5","m">>
    /\ gocryptfs_ran(r)
    /\ HasIdle(tool_run(r).argv, <<"2","h","4","5","m">>)

\* C12: Mount requests do not exclude one another, and nothing looks at the
\* mount table again before the tool is run.  While one Mount stands between
\* its checks and its run and the mount path is not mounted yet, the checks
\* of mount_folder on the same request (which a second, idle caller may
\* send) pass again, the "not already mounted" check among them, and give
\* the same command; and a Mount that passed its checks runs the tool
\* whatever the mount table says by then.
C12_MountsNotExcluded ==
  /\ \A r1, r2 \in Callers :
       (r1 # r2 /\ pc[r1] = "spawn" /\ req[r1].op = "mount"
        /\ pc[r2] = "idle" /\ ~host.mounted)
         => /\ req[r1] \in PairRequests.mount
            /\ mount_check(host, req[r1]) = Run(cmd[r1], stdin_data[r1])
  /\ \A r \in Callers :
       (pc[r] = "spawn" /\ req[r].op = "mount")
         => ENABLED (mount_folder_run(r) /\ gocryptfs_ran(r)')

\* C12 witness: two Mounts of one mount path both ran the tool and both
\* tools exited zero; as the first exit mounted the path and nothing
\* unmounts it, the second tool was run on a mounted path.
C12_Witness ==
  \E r1, r2 \in Callers :
    /\ r1 # r2
    /\ req[r1].op = "mount" /\ req[r2].op = "mount"
    /\ canonical(req[r1].mount_path) = canonical(req[r2].mount_path)
    /\ gocryptfs_ran(r1) /\ tool_run(r1).code = 0
    /\ gocryptfs_ran(r2) /\ tool_run(r2).code = 0
    /\ host.mounted

\* The mount-query processes run so far for the request of caller r.
findmnt_procs(r) ==
  {i \in 1..Len(procs[r]) : procs[r][i].argv[1] = Findmnt}

\* The request of caller r ended with the diagnostic of a precondition.
PreconditionFailed(r) ==
  pc[r] = "done" /\ ~out[r].ok /\ out[r].error \in PreconditionMsgs

\* C13 as stated: a request runs one external process at most, every
\* process run through _run_command counted, and none when it fails a
\* precondition.
C13_OneProcessAsStated ==
  \A r \in Callers :
    /\ Len(procs[r]) <= 1
    /\ PreconditionFailed(r) => procs[r] = <<>>

\* C13 amended: a request runs one lifecycle-tool process at most, and none
\* when it fails a precondition.  Besides that, a Mount runs the mount-query
\* tool once at most and an Unmount twice at most (for its precondition and
\* for its re-check), Init and Info never; nothing else is run.
C13_OneLifecycleProcess ==
  \A r \in Callers :
    /\ Cardinality(lifecycle_procs(r)) <= 1
    /\ PreconditionFailed(r) => lifecycle_procs(r) = {}
    /\ Cardinality(findmnt_procs(r)) <=
         (CASE req[r].op = "mount" -> 1 [] req[r].op = "unmount" -> 2 [] OTHER -> 0)
    /\ lifecycle_procs(r) \cup findmnt_procs(r) = 1..Len(procs[r])

\* C13 witness: an Unmount ran the mount-query tool, the unmount helper and
\* the mount-query tool again.
C13_Witness ==
  \E r \in Callers :
    /\ pc[r] = "done" /\ req[r].op = "unmount"
    /\ Len(procs[r]) = 3
    /\ procs[r][1].argv[1] = Findmnt
    /\ procs[r][2].argv[1] = Fusermount
    /\ procs[r][3].argv[1] = Findmnt

\* Caller r enters Mount or Unmount in this step and the handler gets as
\* far as its call of _is_mounted.
OracleAsked(r) ==
  \/ Enters(r, "mount") /\ mount_reaches_oracle(host, req'[r])
  \/ Enters(r, "unmount") /\ unmount_reaches_oracle(host, req'[r])

\* What that call gave, as the handler's next move shows it: Mount refuses a
\* mounted path, Unmount refuses one that is not mounted.
OracleSaid(r) ==
  IF pc'[r] = "raised" THEN "raise"
  ELSE IF req'[r].op = "mount"
  THEN (IF pc'[r] = "done" /\ out'[r] = Error(MsgAlreadyMounted) THEN "yes" ELSE "no")
  ELSE (IF pc'[r] = "done" /\ out'[r] = Error(MsgNotMounted) THEN "no" ELSE "yes")

\* findmnt is installed and exits with code zero for path mp.
ToolAnswers(mp) ==
  Findmnt \in host.tools /\ findmnt_run(host, mp).code = 0

\* One of the targets findmnt prints for path mp is mp.
ToolListsPath(mp) ==
  LET ls == splitlines(findmnt_run(host, mp).stdout) IN
  \E i \in 1..Len(ls) : rstrip_slash(realpath(ls[i])) = mp

\* C14 as stated: when findmnt is installed and exits with code zero, the
\* answer of _is_mounted is findmnt's (mounted iff one of its targets is
\* the path), and no mount-table file is opened.
C14_ToolAnswerFinal ==
  [][\A r \in Callers :
       OracleAsked(r)
         => LET mp == canonical(req'[r].mount_path) IN
            ToolAnswers(mp)
              => /\ OracleSaid(r) = (IF ToolListsPath(mp) THEN "yes" ELSE "no")
                 /\ opened'[r] = <<>>
    ]_vars

\* C14 amended: the sources are asked in the order findmnt,
\* /proc/self/mountinfo, /proc/mounts, and only "mounted" ends the search.
\* When findmnt is installed, exits with code zero and prints the path, the
\* answer is "mounted" and no file is opened.  In every other case
\* (findmnt not installed, a non-zero exit code, no target that is the
\* path) /proc/self/mountinfo is opened next, and its listing the path
\* gives "mounted" without /proc/mounts being opened; /proc/mounts is
\* opened only after /proc/self/mountinfo.
C14_PositiveAnswerFinal ==
  [][\A r \in Callers :
       OracleAsked(r)
         => LET mp == canonical(req'[r].mount_path) IN
            IF ToolAnswers(mp) /\ ToolListsPath(mp)
            THEN OracleSaid(r) = "yes" /\ opened'[r] = <<>>
            ELSE /\ opened'[r] \in {<<ProcMountinfo>>, <<ProcMountinfo, ProcMounts>>}
                 /\ (host.mountinfo = "ok" /\ table_lists(mountinfo_lines(host), 5, mp))
                      => OracleSaid(r) = "yes" /\ opened'[r] = <<ProcMountinfo>>
    ]_vars

\* C14 witness: findmnt ran, exited with code zero without printing the
\* path, and both mount-table files were opened after it.
C14_Witness ==
  \E r \in Callers :
    /\ req[r].op \in {"mount", "unmount"}
    /\ findmnt_procs(r) # {}
    /\ procs[r][1].code = 0
    /\ opened[r] = <<ProcMountinfo, ProcMounts>>

\* The lines of text holding the marker token, by their place in the text.
MarkedLines(text) ==
  {i \in 1..Len(splitlines(text)) : contains(splitlines(text)[i], MasterKeyToken)}

\* The first line of text holding the marker token: none as <<>>, line l
\* as <<l>>.
FirstMarkedLine(text) ==
  IF MarkedLines(text) = {} THEN <<>>
  ELSE << splitlines(text)[CHOOSE i \in MarkedLines(text) :
                             \A j \in MarkedLines(text) : i <= j] >>

\* An Init of caller r ended after its tool exited with code zero.
InitSucceeded(r) ==
  /\ pc[r] = "done" /\ req[r].op = "init"
  /\ lifecycle_procs(r) # {} /\ tool_run(r).code = 0

\* No outcome but that of an Init whose tool exited zero has a credential.
CredentialOnlyFromInit ==
  \A r \in Callers : ~InitSucceeded(r) => "master_key" \notin DOMAIN out[r]

\* C15 as stated: an Init whose tool exits zero ends ok=true with, as its
\* credential, the first line of standard output holding the marker token
\* as it stands there, or none when no line holds it; no other outcome has
\* a credential.
C15_CredentialVerbatim ==
  /\ \A r \in Callers :
       InitSucceeded(r)
         => /\ out[r].ok
            /\ out[r].master_key = FirstMarkedLine(tool_run(r).stdout)
  /\ CredentialOnlyFromInit

\* C15 amended: the credential is that first line with the whitespace
\* around it trimmed.
C15_CredentialTrimmed ==
  /\ \A r \in Callers :
       InitSucceeded(r)
         => /\ out[r].ok
            /\ out[r].master_key =
                 (IF FirstMarkedLine(tool_run(r).stdout) = <<>> THEN <<>>
                  ELSE <<strip(FirstMarkedLine(tool_run(r).stdout)[1])>>)
  /\ CredentialOnlyFromInit

\* C15 witness: an Init whose tool printed two lines with the marker token
\* ended with the first of them as its credential.
C15_Witness ==
  \E r \in Callers :
    /\ InitSucceeded(r)
    /\ Cardinality(MarkedLines(tool_run(r).stdout)) = 2
    /\ out[r].master_key = << <<"M","a","s","t","e","r","K","e","y",":","1">> >>

====
